---- MODULE Spec2Model ----
(***************************************************************************)
(* Model of package autotls (middlewares/server/autotls/autotls.go) and of *)
(* the server options it uses (server/option.go).                          *)
(*                                                                         *)
(* Four state machines share this module:                                   *)
(*   Spec / FairSpec : one invocation of run(ctx, tlsServer), the three    *)
(*                     errgroup tasks and the two shutdown tasks;          *)
(*   SpecBuild       : one call of NewServerWithManagerAndTlsConfig;       *)
(*   SpecRedirect    : one request answered by the redirect server;        *)
(*   SpecCert        : one call of NewTlsConfig and one host-policy check. *)
(***************************************************************************)
EXTENDS Naturals, Sequences, FiniteSets, TLC

VARIABLES
    entry,          \* "Run" or "RunWithContext": the exported function that called run
    ctxMarker,      \* ctx.Value(ctxKey) != nil
    ctxDone,        \* ctx.Done() is closed
    mainPc,         \* position of run's own goroutine
    result,         \* the error run returned
    taskPc,         \* per server: position of the g.Go task that calls Spin
    spinErr,        \* per server: the failure Spin met inside the server (never returned: Spin has no result)
    spinFailPre,    \* per server: Spin failed to bind while ctx was not yet cancelled
    watcherPc,      \* position of the shutdown watcher task
    shutPc,         \* per server: position of the gShutdown.Go task that calls Shutdown
    shutRet,        \* per server: the error Shutdown returned
    gErr,           \* g.err of the outer errgroup
    gWg,            \* g.wg of the outer errgroup
    gShutErr,       \* gShutdown.err
    gShutWg,        \* gShutdown.wg
    spinCalls,      \* per server: number of Spin calls issued
    shutdownCalls,  \* per server: number of Shutdown calls issued
    shutBeforeSpin, \* per server: a Shutdown call was issued before the Spin call started
    runningAtCancel,\* both servers were listening when ctx was cancelled
    bPc,            \* builder: "input" before the call, "built" after
    mCache,         \* builder: m.Cache of the autocert manager
    tlscIn,         \* builder: the caller's *tls.Config as passed (NilCfg for nil)
    optsIn,         \* builder: the caller's option list
    tlsc,           \* builder: the config tlsc points to after the merge
    srvOpts,        \* builder: the config.Options of the built server
    transporter,    \* builder: the process-wide transporter set by route.SetTransporter
    rPc,            \* redirect server: "received" before the handler ran, "answered" after
    reqIn,          \* redirect server: the request (method, host, path, query)
    respStatus,     \* redirect server: the status code of the response
    respLocation,   \* redirect server: the redirect target of the response
    cPc,            \* NewTlsConfig: "input", "built" after the call, "checked" after a policy check
    domainsIn,      \* NewTlsConfig: the domains argument
    hostPolicy,     \* NewTlsConfig: m.HostPolicy (NoPolicy when nil)
    certCache,      \* NewTlsConfig: m.Cache ("nil" or "dir")
    cfgOut,         \* NewTlsConfig: the returned *tls.Config
    dirCreatable,   \* NewTlsConfig: os.MkdirAll(dir, 0o700) succeeds on this file system
    sniName,        \* host-policy check: the server name asked for
    sniAccepted     \* host-policy check: the manager accepted the name

orchVars == <<entry, ctxMarker, ctxDone, mainPc, result, taskPc, spinErr, spinFailPre,
              watcherPc, shutPc, shutRet, gErr, gWg, gShutErr, gShutWg, spinCalls,
              shutdownCalls, shutBeforeSpin, runningAtCancel>>
buildVars == <<bPc, mCache, tlscIn, optsIn, tlsc, srvOpts, transporter>>
redirVars == <<rPc, reqIn, respStatus, respLocation>>
certVars == <<cPc, domainsIn, hostPolicy, certCache, cfgOut, dirCreatable, sniName, sniAccepted>>
vars == <<orchVars, buildVars, redirVars, certVars>>

----------------------------------------------------------------------------
(* Errors.  An error value is the set of the failures it reports: the nil   *)
(* error is the empty set, a plain error is a singleton.                    *)

Servers == {"redirect", "tls"}

Nil == {}
ErrBind(s) == {<<"bind", s>>}
ErrShutdown(s) == {<<"shutdown", s>>}

\* errgroup.Group.Go: the first non-nil error a task returns is kept (errOnce).
GroupRecord(cur, err) == IF err # Nil /\ cur = Nil THEN err ELSE cur

\* errgroup.Group.Wait: wg.Wait() returns once every task has called done.
WaitReadyEager(wg) == wg < 3
WaitReadySpinsOnly(wg) == wg <= 1
WaitReady(wg) == wg = 0

\* ctx.Value(ctxKey) != nil: the watcher returns nil at once.
WatcherSkipsNever == FALSE
WatcherSkips == ctxMarker

----------------------------------------------------------------------------
(* NewServerWithManagerAndTlsConfig(m, tlsc, opts...)                       *)

MaxOpts == 2

\* The nil *tls.Config.
NilCfg == [nil |-> TRUE]
Transporters == {"standard", "netpoll"}

\* m.TLSConfig(): the manager's certificate callback and its negotiation list
\* (h2, http/1.1 and the ACME TLS-ALPN protocol); every other field is unset.
ManagerTLSConfig ==
    [GetCertificate |-> "manager",
     NextProtos     |-> <<"h2", "http/1.1", "acme-tls/1">>,
     MinVersion     |-> "unset",
     CipherSuites   |-> <<>>,
     ClientAuth     |-> "NoClientCert"]

\* The non-nil configurations a caller may pass.
CallerConfigs ==
    [GetCertificate : {"none", "caller"},
     NextProtos     : {<<>>, <<"h2">>},
     MinVersion     : {"unset", "TLS12"},
     CipherSuites   : {<<>>, <<"TLS_AES_128_GCM_SHA256">>},
     ClientAuth     : {"NoClientCert", "RequireAndVerifyClientCert"}]

\* if tlsc == nil { tlsc = m.TLSConfig() }, then the two assignments from the
\* manager's default; tlsc is a pointer, the caller's object is updated in place.
MergeIfMissing(cfg) ==
    LET base == IF cfg = NilCfg THEN ManagerTLSConfig ELSE cfg
    IN  IF base.GetCertificate = "none"
          THEN [base EXCEPT !.GetCertificate = ManagerTLSConfig.GetCertificate,
                            !.NextProtos = ManagerTLSConfig.NextProtos]
          ELSE base
MergeFromDefault(cfg) == ManagerTLSConfig
Merge(cfg) ==
    LET base == IF cfg = NilCfg THEN ManagerTLSConfig ELSE cfg
    IN  [base EXCEPT !.GetCertificate = ManagerTLSConfig.GetCertificate,
                     !.NextProtos = ManagerTLSConfig.NextProtos]

\* The options of server/option.go the builder and its callers use.
WithHostPorts(hp) == [kind |-> "HostPorts", arg |-> hp]
WithTransport(tr) == [kind |-> "Transport", arg |-> tr]
WithTLS(cfg) == [kind |-> "TLS", arg |-> cfg]
WithH2C(b) == [kind |-> "H2C", arg |-> b]

\* The F of an option, run on the options object o and on the transporter that
\* route.SetTransporter keeps for the process.
ApplyOption(st, opt) ==
    CASE opt.kind = "HostPorts" -> [st EXCEPT !.o.Addr = opt.arg]
      [] opt.kind = "Transport" -> [st EXCEPT !.tr = opt.arg]
      [] opt.kind = "TLS"       -> [st EXCEPT !.tr = "standard", !.o.TLS = opt.arg]
      [] opt.kind = "H2C"       -> [st EXCEPT !.o.H2C = opt.arg]

\* The options object before any option ran.
NoOpts == [Addr |-> "default", TLS |-> NilCfg, H2C |-> FALSE]

\* frame.Default(opts...): the options run on a fresh options object, in list order.
RECURSIVE ApplyAll(_, _)
ApplyAll(st, opts) ==
    IF opts = <<>> THEN st ELSE ApplyAll(ApplyOption(st, Head(opts)), Tail(opts))

\* opts = append(opts, WithHostPorts(":https"), WithTransport(standard.NewTransporter), WithTLS(tlsc))
AllOptsCallerLast(opts, cfg) ==
    <<WithHostPorts(":https"), WithTransport("standard"), WithTLS(cfg)>> \o opts
AllOpts(opts, cfg) ==
    opts \o <<WithHostPorts(":https"), WithTransport("standard"), WithTLS(cfg)>>

\* The options a caller may pass.
CallerOptions ==
    {WithHostPorts(":8443"), WithHostPorts("127.0.0.1:9443"),
     WithTransport("standard"), WithTransport("netpoll"),
     WithTLS([ManagerTLSConfig EXCEPT !.GetCertificate = "caller", !.NextProtos = <<>>]),
     WithH2C(TRUE)}

OptionLists == UNION {[1..n -> CallerOptions] : n \in 0..MaxOpts}

BuildIdle ==
    /\ bPc = "idle" /\ mCache = "nil" /\ tlscIn = NilCfg /\ optsIn = <<>>
    /\ tlsc = NilCfg /\ srvOpts = NoOpts /\ transporter = "netpoll"

RunIdle ==
    /\ entry = "Run" /\ ctxMarker = TRUE /\ ctxDone = FALSE
    /\ mainPc = "idle" /\ result = Nil
    /\ taskPc = [s \in Servers |-> "unborn"]
    /\ spinErr = [s \in Servers |-> Nil]
    /\ spinFailPre = [s \in Servers |-> FALSE]
    /\ watcherPc = "unborn"
    /\ shutPc = [s \in Servers |-> "unborn"]
    /\ shutRet = [s \in Servers |-> Nil]
    /\ gErr = Nil /\ gWg = 0 /\ gShutErr = Nil /\ gShutWg = 0
    /\ spinCalls = [s \in Servers |-> 0]
    /\ shutdownCalls = [s \in Servers |-> 0]
    /\ shutBeforeSpin = [s \in Servers |-> FALSE]
    /\ runningAtCancel = FALSE

RedirIdle ==
    /\ rPc = "idle" /\ reqIn = [method |-> "GET", host |-> "", path |-> "/", query |-> ""]
    /\ respStatus = 0 /\ respLocation = ""

\* m.HostPolicy == nil
NoPolicy == [installed |-> FALSE, hosts |-> {}]

CertIdle ==
    /\ cPc = "idle" /\ domainsIn = <<>> /\ hostPolicy = NoPolicy /\ certCache = "nil"
    /\ cfgOut = NilCfg /\ dirCreatable = TRUE /\ sniName = "" /\ sniAccepted = FALSE

InitBuild ==
    /\ RunIdle /\ RedirIdle /\ CertIdle
    /\ bPc = "input"
    /\ mCache \in {"nil", "caller"}
    /\ tlscIn \in {NilCfg} \cup CallerConfigs
    /\ optsIn \in OptionLists
    /\ tlsc = tlscIn
    /\ srvOpts = NoOpts
    /\ transporter \in Transporters

\* The whole call.  getCacheDir either yields a directory cache or fails (logged).
NewServerWithManagerAndTlsConfig ==
    /\ bPc = "input"
    /\ bPc' = "built"
    /\ \E got \in {"dir", "nil"} : mCache' = IF mCache = "nil" THEN got ELSE mCache
    /\ tlsc' = Merge(tlscIn)
    /\ LET st == ApplyAll([o |-> NoOpts, tr |-> transporter], AllOpts(optsIn, tlsc'))
       IN  /\ srvOpts' = st.o
           /\ transporter' = st.tr
    /\ UNCHANGED <<tlscIn, optsIn, orchVars, redirVars, certVars>>

NextBuild == NewServerWithManagerAndTlsConfig

SpecBuild == InitBuild /\ [][NextBuild]_vars

----------------------------------------------------------------------------
(* The redirect server of run: its NoRoute handler.                         *)

StatusMovedPermanently == 301

Methods == {"GET", "HEAD", "POST", "DELETE"}
RequestHosts == {"example.com", "www.example.com:80", "localhost"}
RequestPaths == {"/", "/a", "/a/b.html"}
RequestQueries == {"", "x=1", "x=1&y=a%20b"}

Requests ==
    [method : Methods, host : RequestHosts, path : RequestPaths, query : RequestQueries]

\* ctx.Request.URI().Host()
Host(req) == req.host

\* ctx.Request.URI().RequestURI(): the path, then "?" and the query when there is one.
RequestURI(req) == req.path \o (IF req.query = "" THEN "" ELSE "?" \o req.query)

\* target := "https://" + string(ctx.Request.URI().Host()) + string(ctx.Request.URI().RequestURI())
RedirectTargetPathOnly(req) == "https://" \o Host(req) \o req.path
RedirectTarget(req) == "https://" \o Host(req) \o RequestURI(req)

InitRedirect ==
    /\ RunIdle /\ BuildIdle /\ CertIdle
    /\ rPc = "received"
    /\ reqIn \in Requests
    /\ respStatus = 0
    /\ respLocation = ""

\* The redirect server has no route, so every request reaches the NoRoute handler:
\* ctx.Redirect(http.StatusMovedPermanently, []byte(target))
NoRoute ==
    /\ rPc = "received"
    /\ rPc' = "answered"
    /\ respStatus' = StatusMovedPermanently
    /\ respLocation' = RedirectTarget(reqIn)
    /\ UNCHANGED <<reqIn, orchVars, buildVars, certVars>>

NextRedirect == NoRoute

SpecRedirect == InitRedirect /\ [][NextRedirect]_vars

----------------------------------------------------------------------------
(* NewTlsConfig(domains...)                                                 *)

MaxDomains == 2

DomainNames == {"example.com", "www.example.com", "other.com"}
SniNames == DomainNames \cup {"evil.test"}
DomainLists == UNION {[1..n -> DomainNames] : n \in 0..MaxDomains}

\* autocert.HostWhitelist(domains...): a policy that accepts the listed hosts only.
HostWhitelist(domains) ==
    [installed |-> TRUE, hosts |-> {domains[i] : i \in 1..Len(domains)}]

\* if len(domains) > 0 { m.HostPolicy = autocert.HostWhitelist(domains...) }
HostPolicyAlways(domains) == HostWhitelist(domains)
HostPolicyFor(domains) ==
    IF Len(domains) > 0 THEN HostWhitelist(domains) ELSE NoPolicy

\* if err := os.MkdirAll(dir, 0o700); err != nil { log } else { m.Cache = autocert.DirCache(dir) }
CacheAlwaysDir(created) == "dir"
CacheAfterMkdir(created) == IF created THEN "dir" ELSE "nil"

\* The manager asks its policy about a server name; without a policy it accepts any.
PolicyAccepts(policy, name) == ~policy.installed \/ name \in policy.hosts

InitCert ==
    /\ RunIdle /\ BuildIdle /\ RedirIdle
    /\ cPc = "input"
    /\ domainsIn \in DomainLists
    /\ dirCreatable \in BOOLEAN
    /\ hostPolicy = NoPolicy
    /\ certCache = "nil"
    /\ cfgOut = NilCfg
    /\ sniName = ""
    /\ sniAccepted = FALSE

\* The whole call: host policy, cache directory, return m.TLSConfig().
NewTlsConfig ==
    /\ cPc = "input"
    /\ cPc' = "built"
    /\ hostPolicy' = HostPolicyFor(domainsIn)
    /\ certCache' = CacheAfterMkdir(dirCreatable)
    /\ cfgOut' = ManagerTLSConfig
    /\ UNCHANGED <<domainsIn, dirCreatable, sniName, sniAccepted, orchVars, buildVars, redirVars>>

\* A handshake asks the manager for a certificate for server name `name`.
HostPolicyCheck(name) ==
    /\ cPc = "built"
    /\ cPc' = "checked"
    /\ sniName' = name
    /\ sniAccepted' = PolicyAccepts(hostPolicy, name)
    /\ UNCHANGED <<domainsIn, dirCreatable, hostPolicy, certCache, cfgOut, orchVars,
                   buildVars, redirVars>>

NextCert ==
    \/ NewTlsConfig
    \/ \E name \in SniNames : HostPolicyCheck(name)

SpecCert == InitCert /\ [][NextCert]_vars

----------------------------------------------------------------------------
(* run(ctx, tlsServer)                                                      *)

InitRun ==
    /\ entry \in {"Run", "RunWithContext"}
    /\ ctxMarker \in BOOLEAN
    /\ ctxDone \in BOOLEAN
    \* Run passes todoCtx: it carries the marker and is never cancelled
    /\ entry = "Run" => (ctxMarker /\ ~ctxDone)
    /\ mainPc = "go_redirect"
    /\ result = Nil
    /\ taskPc = [s \in Servers |-> "unborn"]
    /\ spinErr = [s \in Servers |-> Nil]
    /\ spinFailPre = [s \in Servers |-> FALSE]
    /\ watcherPc = "unborn"
    /\ shutPc = [s \in Servers |-> "unborn"]
    /\ shutRet = [s \in Servers |-> Nil]
    /\ gErr = Nil /\ gWg = 0 /\ gShutErr = Nil /\ gShutWg = 0
    /\ spinCalls = [s \in Servers |-> 0]
    /\ shutdownCalls = [s \in Servers |-> 0]
    /\ shutBeforeSpin = [s \in Servers |-> FALSE]
    /\ runningAtCancel = FALSE

Init == InitRun /\ BuildIdle /\ RedirIdle /\ CertIdle

\* g.Go(func() error { redirectServer.Spin(); return nil })
GoRedirect ==
    /\ mainPc = "go_redirect"
    /\ mainPc' = "go_tls"
    /\ gWg' = gWg + 1
    /\ taskPc' = [taskPc EXCEPT !["redirect"] = "ready"]
    /\ UNCHANGED <<entry, ctxMarker, ctxDone, result, spinErr, spinFailPre, watcherPc,
                   shutPc, shutRet, gErr, gShutErr, gShutWg, spinCalls, shutdownCalls,
                   shutBeforeSpin, runningAtCancel, buildVars, redirVars, certVars>>

\* g.Go(func() error { tlsServer.Spin(); return nil })
GoTls ==
    /\ mainPc = "go_tls"
    /\ mainPc' = "go_watcher"
    /\ gWg' = gWg + 1
    /\ taskPc' = [taskPc EXCEPT !["tls"] = "ready"]
    /\ UNCHANGED <<entry, ctxMarker, ctxDone, result, spinErr, spinFailPre, watcherPc,
                   shutPc, shutRet, gErr, gShutErr, gShutWg, spinCalls, shutdownCalls,
                   shutBeforeSpin, runningAtCancel, buildVars, redirVars, certVars>>

\* g.Go(func() error { ... the shutdown watcher ... })
GoWatcher ==
    /\ mainPc = "go_watcher"
    /\ mainPc' = "wait"
    /\ gWg' = gWg + 1
    /\ watcherPc' = "check"
    /\ UNCHANGED <<entry, ctxMarker, ctxDone, result, taskPc, spinErr, spinFailPre,
                   shutPc, shutRet, gErr, gShutErr, gShutWg, spinCalls, shutdownCalls,
                   shutBeforeSpin, runningAtCancel, buildVars, redirVars, certVars>>

\* The task's goroutine is scheduled and calls s.Spin().
SpinCall(s) ==
    /\ taskPc[s] = "ready"
    /\ taskPc' = [taskPc EXCEPT ![s] = "starting"]
    /\ spinCalls' = [spinCalls EXCEPT ![s] = @ + 1]
    /\ UNCHANGED <<entry, ctxMarker, ctxDone, mainPc, result, spinErr, spinFailPre,
                   watcherPc, shutPc, shutRet, gErr, gWg, gShutErr, gShutWg,
                   shutdownCalls, shutBeforeSpin, runningAtCancel, buildVars, redirVars, certVars>>

\* Inside Spin: the listener is bound and the server serves.
SpinListen(s) ==
    /\ taskPc[s] = "starting"
    /\ taskPc' = [taskPc EXCEPT ![s] = "listening"]
    /\ UNCHANGED <<entry, ctxMarker, ctxDone, mainPc, result, spinErr, spinFailPre,
                   watcherPc, shutPc, shutRet, gErr, gWg, gShutErr, gShutWg, spinCalls,
                   shutdownCalls, shutBeforeSpin, runningAtCancel, buildVars, redirVars, certVars>>

\* Inside Spin: the listener cannot be bound; Spin returns (it has no result value).
SpinFail(s) ==
    /\ taskPc[s] = "starting"
    /\ taskPc' = [taskPc EXCEPT ![s] = "spun"]
    /\ spinErr' = [spinErr EXCEPT ![s] = ErrBind(s)]
    /\ spinFailPre' = [spinFailPre EXCEPT ![s] = ~ctxDone]
    /\ UNCHANGED <<entry, ctxMarker, ctxDone, mainPc, result, watcherPc, shutPc, shutRet,
                   gErr, gWg, gShutErr, gShutWg, spinCalls, shutdownCalls,
                   shutBeforeSpin, runningAtCancel, buildVars, redirVars, certVars>>

\* Spin returns from a serving server (it was shut down, or it stopped by itself).
SpinReturn(s) ==
    /\ taskPc[s] = "listening"
    /\ taskPc' = [taskPc EXCEPT ![s] = "spun"]
    /\ UNCHANGED <<entry, ctxMarker, ctxDone, mainPc, result, spinErr, spinFailPre,
                   watcherPc, shutPc, shutRet, gErr, gWg, gShutErr, gShutWg, spinCalls,
                   shutdownCalls, shutBeforeSpin, runningAtCancel, buildVars, redirVars, certVars>>

\* The value the Spin task hands to the errgroup: "return nil" whatever Spin met.
SpinTaskError(s) == Nil

\* "return nil" after Spin: the errgroup records the task's error and counts it done.
TaskReturn(s) ==
    /\ taskPc[s] = "spun"
    /\ taskPc' = [taskPc EXCEPT ![s] = "done"]
    /\ gErr' = GroupRecord(gErr, SpinTaskError(s))
    /\ gWg' = gWg - 1
    /\ UNCHANGED <<entry, ctxMarker, ctxDone, mainPc, result, spinErr, spinFailPre,
                   watcherPc, shutPc, shutRet, gShutErr, gShutWg, spinCalls,
                   shutdownCalls, shutBeforeSpin, runningAtCancel, buildVars, redirVars, certVars>>

\* if v := ctx.Value(ctxKey); v != nil { return nil }
WatcherCheck ==
    /\ watcherPc = "check"
    /\ IF WatcherSkips
         THEN /\ watcherPc' = "done"
              /\ gErr' = GroupRecord(gErr, Nil)
              /\ gWg' = gWg - 1
         ELSE /\ watcherPc' = "wait_ctx"
              /\ UNCHANGED <<gErr, gWg>>
    /\ UNCHANGED <<entry, ctxMarker, ctxDone, mainPc, result, taskPc, spinErr, spinFailPre,
                   shutPc, shutRet, gShutErr, gShutWg, spinCalls, shutdownCalls,
                   shutBeforeSpin, runningAtCancel, buildVars, redirVars, certVars>>

\* <-ctx.Done()
WatcherWakeOnSpinReturn ==
    /\ watcherPc = "wait_ctx"
    /\ ctxDone \/ \E s \in Servers : taskPc[s] \in {"spun", "done"}
    /\ watcherPc' = "go_redirect"
    /\ UNCHANGED <<entry, ctxMarker, ctxDone, mainPc, result, taskPc, spinErr, spinFailPre,
                   shutPc, shutRet, gErr, gWg, gShutErr, gShutWg, spinCalls,
                   shutdownCalls, shutBeforeSpin, runningAtCancel, buildVars, redirVars, certVars>>
WatcherWake ==
    /\ watcherPc = "wait_ctx"
    /\ ctxDone
    /\ watcherPc' = "go_redirect"
    /\ UNCHANGED <<entry, ctxMarker, ctxDone, mainPc, result, taskPc, spinErr, spinFailPre,
                   shutPc, shutRet, gErr, gWg, gShutErr, gShutWg, spinCalls,
                   shutdownCalls, shutBeforeSpin, runningAtCancel, buildVars, redirVars, certVars>>

\* The watcher's position after launching the shutdown task of server s.
AfterGo(s) == IF s = "redirect" THEN "go_tls" ELSE "wait_shutdown"

\* gShutdown.Go(func() error { return s.Shutdown(context.Background()) })
ShutdownGoSkipTls(s) ==
    /\ watcherPc = "go_" \o s
    /\ watcherPc' = AfterGo(s)
    /\ IF s = "tls"
         THEN UNCHANGED <<gShutWg, shutPc>>
         ELSE /\ gShutWg' = gShutWg + 1
              /\ shutPc' = [shutPc EXCEPT ![s] = "ready"]
    /\ UNCHANGED <<entry, ctxMarker, ctxDone, mainPc, result, taskPc, spinErr, spinFailPre,
                   shutRet, gErr, gWg, gShutErr, spinCalls, shutdownCalls,
                   shutBeforeSpin, runningAtCancel, buildVars, redirVars, certVars>>
ShutdownGoCopyPaste(s) ==
    /\ watcherPc = "go_" \o s
    /\ watcherPc' = AfterGo(s)
    /\ gShutWg' = gShutWg + 1
    /\ shutPc' = [shutPc EXCEPT !["redirect"] = "ready"]
    /\ UNCHANGED <<entry, ctxMarker, ctxDone, mainPc, result, taskPc, spinErr, spinFailPre,
                   shutRet, gErr, gWg, gShutErr, spinCalls, shutdownCalls,
                   shutBeforeSpin, runningAtCancel, buildVars, redirVars, certVars>>
ShutdownGoSequential(s) ==
    /\ watcherPc = "go_" \o s
    /\ s = "tls" => (shutPc["redirect"] = "done" /\ shutRet["redirect"] = Nil)
    /\ watcherPc' = AfterGo(s)
    /\ gShutWg' = gShutWg + 1
    /\ shutPc' = [shutPc EXCEPT ![s] = "ready"]
    /\ UNCHANGED <<entry, ctxMarker, ctxDone, mainPc, result, taskPc, spinErr, spinFailPre,
                   shutRet, gErr, gWg, gShutErr, spinCalls, shutdownCalls,
                   shutBeforeSpin, runningAtCancel, buildVars, redirVars, certVars>>
ShutdownGo(s) ==
    /\ watcherPc = "go_" \o s
    /\ watcherPc' = AfterGo(s)
    /\ gShutWg' = gShutWg + 1
    /\ shutPc' = [shutPc EXCEPT ![s] = "ready"]
    /\ UNCHANGED <<entry, ctxMarker, ctxDone, mainPc, result, taskPc, spinErr, spinFailPre,
                   shutRet, gErr, gWg, gShutErr, spinCalls, shutdownCalls,
                   shutBeforeSpin, runningAtCancel, buildVars, redirVars, certVars>>

\* context.Background(), the context handed to Shutdown: no deadline, never done.
ShutdownCtx == [deadline |-> FALSE, done |-> FALSE]

\* The shutdown task's goroutine is scheduled and calls s.Shutdown(context.Background()).
ShutdownCall(s) ==
    /\ shutPc[s] = "ready"
    /\ shutPc' = [shutPc EXCEPT ![s] = "called"]
    /\ shutdownCalls' = [shutdownCalls EXCEPT ![s] = @ + 1]
    /\ shutBeforeSpin' = [shutBeforeSpin EXCEPT ![s] = @ \/ taskPc[s] \in {"unborn", "ready"}]
    /\ UNCHANGED <<entry, ctxMarker, ctxDone, mainPc, result, taskPc, spinErr, spinFailPre,
                   watcherPc, shutRet, gErr, gWg, gShutErr, gShutWg, spinCalls,
                   runningAtCancel, buildVars, redirVars, certVars>>

\* s.Shutdown returns e: nil, or the server's failure to stop.
ShutdownReturn(s, e) ==
    /\ shutPc[s] = "called"
    /\ shutPc' = [shutPc EXCEPT ![s] = "returned"]
    /\ shutRet' = [shutRet EXCEPT ![s] = e]
    /\ UNCHANGED <<entry, ctxMarker, ctxDone, mainPc, result, taskPc, spinErr, spinFailPre,
                   watcherPc, gErr, gWg, gShutErr, gShutWg, spinCalls, shutdownCalls,
                   shutBeforeSpin, runningAtCancel, buildVars, redirVars, certVars>>

\* s.Shutdown returns because the context handed to it expired.
ShutdownDeadline(s) ==
    /\ ShutdownCtx.deadline
    /\ \E e \in {Nil, ErrShutdown(s)} : ShutdownReturn(s, e)

\* "return s.Shutdown(...)": gShutdown records the task's error and counts it done.
ShutdownTaskReturn(s) ==
    /\ shutPc[s] = "returned"
    /\ shutPc' = [shutPc EXCEPT ![s] = "done"]
    /\ gShutErr' = GroupRecord(gShutErr, shutRet[s])
    /\ gShutWg' = gShutWg - 1
    /\ UNCHANGED <<entry, ctxMarker, ctxDone, mainPc, result, taskPc, spinErr, spinFailPre,
                   watcherPc, shutRet, gErr, gWg, spinCalls, shutdownCalls,
                   shutBeforeSpin, runningAtCancel, buildVars, redirVars, certVars>>

\* return gShutdown.Wait(): the outer group records what the watcher returns.
WatcherReturn ==
    /\ watcherPc = "wait_shutdown"
    /\ gShutWg = 0
    /\ watcherPc' = "done"
    /\ gErr' = GroupRecord(gErr, gShutErr)
    /\ gWg' = gWg - 1
    /\ UNCHANGED <<entry, ctxMarker, ctxDone, mainPc, result, taskPc, spinErr, spinFailPre,
                   shutPc, shutRet, gShutErr, gShutWg, spinCalls, shutdownCalls,
                   shutBeforeSpin, runningAtCancel, buildVars, redirVars, certVars>>

\* return g.Wait()
MainReturn ==
    /\ mainPc = "wait"
    /\ WaitReady(gWg)
    /\ mainPc' = "returned"
    /\ result' = gErr
    /\ UNCHANGED <<entry, ctxMarker, ctxDone, taskPc, spinErr, spinFailPre, watcherPc,
                   shutPc, shutRet, gErr, gWg, gShutErr, gShutWg, spinCalls,
                   shutdownCalls, shutBeforeSpin, runningAtCancel, buildVars, redirVars, certVars>>

\* The caller of RunWithContext cancels ctx (todoCtx of Run cannot be cancelled).
Cancel ==
    /\ entry = "RunWithContext"
    /\ ~ctxDone
    /\ mainPc # "returned"
    /\ ctxDone' = TRUE
    /\ runningAtCancel' = (\A s \in Servers : taskPc[s] = "listening")
    /\ UNCHANGED <<entry, ctxMarker, mainPc, result, taskPc, spinErr, spinFailPre,
                   watcherPc, shutPc, shutRet, gErr, gWg, gShutErr, gShutWg, spinCalls,
                   shutdownCalls, shutBeforeSpin, buildVars, redirVars, certVars>>

Next ==
    \/ GoRedirect
    \/ GoTls
    \/ GoWatcher
    \/ \E s \in Servers : SpinCall(s)
    \/ \E s \in Servers : SpinListen(s)
    \/ \E s \in Servers : SpinFail(s)
    \/ \E s \in Servers : SpinReturn(s)
    \/ \E s \in Servers : TaskReturn(s)
    \/ WatcherCheck
    \/ WatcherWake
    \/ \E s \in Servers : ShutdownGo(s)
    \/ \E s \in Servers : ShutdownCall(s)
    \/ \E s \in Servers : \E e \in {Nil, ErrShutdown(s)} : ShutdownReturn(s, e)
    \/ \E s \in Servers : ShutdownTaskReturn(s)
    \/ WatcherReturn
    \/ MainReturn
    \/ Cancel

Spec == Init /\ [][Next]_vars

\* The Go scheduler runs every runnable goroutine: each step of run's own code is
\* weakly fair.  What the servers and the caller do (a server stopping, Shutdown
\* returning, ctx being cancelled) is not, except that a Shutdown whose context has a
\* deadline returns when it expires.
Fairness ==
    /\ WF_vars(GoRedirect) /\ WF_vars(GoTls) /\ WF_vars(GoWatcher)
    /\ \A s \in Servers : WF_vars(SpinCall(s)) /\ WF_vars(TaskReturn(s))
    /\ WF_vars(WatcherCheck) /\ WF_vars(WatcherWake)
    /\ \A s \in Servers : WF_vars(ShutdownGo(s)) /\ WF_vars(ShutdownCall(s))
    /\ \A s \in Servers : WF_vars(ShutdownTaskReturn(s))
    /\ WF_vars(WatcherReturn) /\ WF_vars(MainReturn)
    /\ \A s \in Servers : WF_vars(ShutdownDeadline(s))

FairSpec == Init /\ [][Next]_vars /\ Fairness

----------------------------------------------------------------------------
(* Claims about run.                                                        *)

SpinOf(s) == taskPc[s] \in {"spun", "done"}
ShutdownReturned(s) == shutPc[s] \in {"returned", "done"}

\* C1: when the Spin of either server fails to bind before cancellation is
\* requested, the error run returns is non-nil and is that Spin failure.
C1_SpinErrorSurfaced ==
    (mainPc = "returned" /\ \E s \in Servers : spinFailPre[s])
        => (result # Nil /\ \E s \in Servers : spinFailPre[s] /\ result = spinErr[s])

\* C2: RunWithContext, context without the marker: once the secure server's Spin
\* has failed to bind before cancellation, run eventually returns, whether or not
\* the context is ever cancelled and whether or not the redirect server stops.
\* Stated for the case the claim singles out: unless the context is cancelled after
\* all, run returns.
C2_ReturnsAfterTlsBindFailure ==
    (entry = "RunWithContext" /\ ~ctxMarker /\ spinFailPre["tls"])
        ~> (mainPc = "returned" \/ ctxDone)

\* C3: RunWithContext, context without the marker: once the context is cancelled
\* while both servers are running, Shutdown is eventually issued to both servers;
\* and once both Shutdown calls have returned nil and both Spin calls have returned,
\* run eventually returns nil.
C3_CancelShutsDownBoth ==
    /\ (~ctxMarker /\ ctxDone /\ \A s \in Servers : taskPc[s] = "listening")
           ~> (\A s \in Servers : shutdownCalls[s] >= 1)
    /\ (~ctxMarker /\ ctxDone
            /\ \A s \in Servers : ShutdownReturned(s) /\ shutRet[s] = Nil /\ SpinOf(s))
           ~> (mainPc = "returned" /\ result = Nil)

C3_Witness ==
    /\ entry = "RunWithContext" /\ ~ctxMarker /\ runningAtCancel
    /\ mainPc = "returned" /\ result = Nil
    /\ \A s \in Servers : shutdownCalls[s] = 1 /\ shutRet[s] = Nil

\* C4: with a context carrying the marker the watcher exits without error and no
\* Shutdown call is ever launched or issued, cancelled context or not.
C4_MarkerNeverShutsDown ==
    ctxMarker =>
        /\ \A s \in Servers : shutdownCalls[s] = 0 /\ shutPc[s] = "unborn"
        /\ watcherPc \in {"unborn", "check", "done"}
        /\ gErr = Nil /\ gShutErr = Nil /\ result = Nil

C4_Witness ==
    /\ entry = "RunWithContext" /\ ctxMarker /\ ctxDone
    /\ watcherPc = "done" /\ mainPc = "returned"
    /\ \A s \in Servers : spinCalls[s] = 1

\* C5: when both Shutdown calls return a non-nil error the error run returns
\* contains each of the two; when exactly one fails, that error is returned.
C5_ShutdownErrorsAggregated ==
    mainPc = "returned" =>
        result = (shutRet["redirect"] \cup shutRet["tls"])

\* C6: run returns only when both Spin tasks and the watcher have completed.
C6_ReturnsAfterAllTasks ==
    mainPc = "returned" =>
        /\ \A s \in Servers : taskPc[s] = "done"
        /\ watcherPc = "done"

C6_Witness ==
    /\ mainPc = "returned" /\ ~ctxMarker
    /\ \A s \in Servers : taskPc[s] = "done" /\ shutdownCalls[s] = 1
    /\ \E s \in Servers : spinErr[s] # Nil

\* C14: a Shutdown call on a server is never issued before the Spin call on that
\* server has started, also when ctx is already cancelled on entry.
C14_ShutdownAfterSpin ==
    \A s \in Servers : ~shutBeforeSpin[s]

\* C15: after cancellation the watcher finishes within a bounded wait, because the
\* context handed to each Shutdown call expires, also when a server never stops.
C15_WatcherFinishes ==
    (~ctxMarker /\ ctxDone) ~> (watcherPc = "done")

\* C16: Shutdown is launched and issued only after ctx has been cancelled; the
\* return of a Spin, failed or not, never makes the watcher shut the sibling down.
C16_ShutdownOnlyAfterCancel ==
    \A s \in Servers :
        (shutPc[s] # "unborn" \/ shutdownCalls[s] > 0
             \/ watcherPc \in {"go_redirect", "go_tls", "wait_shutdown"}) => ctxDone

C16_Witness ==
    /\ ~ctxMarker /\ ~ctxDone /\ watcherPc = "wait_ctx"
    /\ taskPc["tls"] = "done" /\ spinErr["tls"] # Nil
    /\ taskPc["redirect"] = "listening"
    /\ \A s \in Servers : shutdownCalls[s] = 0

\* C17: Spin is called once on each server (exactly once when run has returned), by
\* that server's Spin task; Shutdown is called at most once on each server, by that
\* server's shutdown task.
C17_CallsAtMostOnce ==
    \A s \in Servers :
        /\ spinCalls[s] = IF taskPc[s] \in {"unborn", "ready"} THEN 0 ELSE 1
        /\ shutdownCalls[s] = IF shutPc[s] \in {"unborn", "ready"} THEN 0 ELSE 1
        /\ mainPc = "returned" => spinCalls[s] = 1

C17_Witness ==
    /\ mainPc = "returned" /\ ~ctxMarker
    /\ \A s \in Servers : spinCalls[s] = 1 /\ shutdownCalls[s] = 1
    /\ shutRet["redirect"] # Nil

\* C18: with a context without the marker, run has returned only in states where
\* the context is cancelled and both Shutdown calls have returned.
C18_NoReturnBeforeCancel ==
    (~ctxMarker /\ mainPc = "returned") =>
        /\ ctxDone
        /\ \A s \in Servers : shutdownCalls[s] = 1 /\ ShutdownReturned(s)

C18_Witness ==
    /\ ~ctxMarker /\ mainPc = "returned"
    /\ \A s \in Servers : spinFailPre[s]

\* C19: once the watcher has been woken, Shutdown is eventually issued to both
\* servers whatever the other Shutdown does (fails, or never returns); and the
\* watcher has finished only in states where both Shutdown calls have returned.
C19_ShutdownsIndependent ==
    /\ [](( ~ctxMarker /\ watcherPc = "done") => \A s \in Servers : shutPc[s] = "done")
    /\ (watcherPc \in {"go_redirect", "go_tls", "wait_shutdown"})
           ~> (\A s \in Servers : shutdownCalls[s] = 1)

C19_Witness ==
    /\ shutPc["redirect"] = "called" /\ shutPc["tls"] = "done"
    /\ shutRet["tls"] # Nil /\ watcherPc = "wait_shutdown"

----------------------------------------------------------------------------
(* Claims about NewServerWithManagerAndTlsConfig.                           *)

HostPortsIn(opts) == {i \in 1..Len(opts) : opts[i].kind = "HostPorts"}
LastHostPorts(opts) ==
    opts[CHOOSE i \in HostPortsIn(opts) : \A j \in HostPortsIn(opts) : j <= i].arg

\* C7: the server listens on ":https" only when the caller's options set no
\* address; when they contain WithHostPorts(a), the server's address is a (the
\* last such a).
C7_CallerAddressWins ==
    bPc = "built" =>
        srvOpts.Addr = IF HostPortsIn(optsIn) = {} THEN ":https" ELSE LastHostPorts(optsIn)

\* C8: whatever configuration the caller passes (nil, without a certificate
\* callback, or with its own callback and protocols), the configuration applied
\* to the server has the manager's GetCertificate and NextProtos.
C8_CertificateFromManager ==
    bPc = "built" =>
        /\ srvOpts.TLS # NilCfg
        /\ srvOpts.TLS.GetCertificate = ManagerTLSConfig.GetCertificate
        /\ srvOpts.TLS.NextProtos = ManagerTLSConfig.NextProtos

C8_Witness ==
    /\ bPc = "built" /\ tlscIn # NilCfg
    /\ tlscIn.GetCertificate = "caller" /\ tlscIn.NextProtos = <<"h2">>
    /\ \E i \in 1..Len(optsIn) : optsIn[i].kind = "TLS"
    /\ srvOpts.TLS.GetCertificate = "manager"

\* The fields of a configuration the merge is said to leave alone.
OtherFields == {"MinVersion", "CipherSuites", "ClientAuth"}

\* C9: for a non-nil caller configuration, MinVersion, the cipher suites and the
\* client-auth policy applied to the server are those of the caller's input.
C9_OtherFieldsPreserved ==
    (bPc = "built" /\ tlscIn # NilCfg) =>
        /\ srvOpts.TLS # NilCfg
        /\ \A f \in OtherFields : srvOpts.TLS[f] = tlscIn[f]

C9_Witness ==
    /\ bPc = "built" /\ tlscIn # NilCfg
    /\ tlscIn.MinVersion = "TLS12" /\ tlscIn.CipherSuites # <<>>
    /\ tlscIn.ClientAuth = "RequireAndVerifyClientCert"
    /\ srvOpts.TLS.MinVersion = "TLS12"
    /\ srvOpts.TLS.GetCertificate # tlscIn.GetCertificate

\* C10: after the builder applied its options the selected transport is the
\* standard one, also when the caller passed WithTransport with another transport.
C10_StandardTransport ==
    bPc = "built" => transporter = "standard"

C10_Witness ==
    /\ bPc = "built" /\ Len(optsIn) > 0
    /\ optsIn[Len(optsIn)] = WithTransport("netpoll")
    /\ transporter = "standard"

----------------------------------------------------------------------------
(* Claims about the redirect server.                                        *)

\* C11: every request, whatever its method, host and path, is answered with
\* status 301 and the target "https://" + host + path-and-query, the query string
\* unchanged.
C11_RedirectTarget ==
    rPc = "answered" =>
        /\ respStatus = 301
        /\ respLocation = "https://" \o reqIn.host \o reqIn.path
                             \o (IF reqIn.query = "" THEN "" ELSE "?" \o reqIn.query)

C11_Witness ==
    /\ rPc = "answered" /\ reqIn.method = "POST" /\ reqIn.host = "www.example.com:80"
    /\ respLocation = "https://www.example.com:80/a/b.html?x=1&y=a%20b"

----------------------------------------------------------------------------
(* Claims about NewTlsConfig.                                               *)

\* C12: NewTlsConfig returns the manager's configuration whether or not the cache
\* directory can be created; when creation fails the manager has no cache, when it
\* succeeds the manager's cache is the directory cache.
C12_ConfigWithoutCache ==
    cPc \in {"built", "checked"} =>
        /\ cfgOut = ManagerTLSConfig
        /\ certCache = IF dirCreatable THEN "dir" ELSE "nil"

C12_Witness ==
    /\ cPc = "built" /\ ~dirCreatable /\ Len(domainsIn) > 0
    /\ certCache = "nil" /\ cfgOut.GetCertificate = "manager"

Listed(name) == \E i \in 1..Len(domainsIn) : domainsIn[i] = name

\* C13: a host policy is installed exactly when the domain list is non-empty;
\* with an empty list every server name is accepted, with a non-empty list
\* exactly the listed names are.
C13_HostPolicy ==
    cPc \in {"built", "checked"} =>
        /\ hostPolicy.installed <=> Len(domainsIn) > 0
        /\ cPc = "checked" => (sniAccepted <=> (Len(domainsIn) = 0 \/ Listed(sniName)))

C13_Witness ==
    /\ cPc = "checked" /\ domainsIn = <<"example.com">>
    /\ sniName = "other.com" /\ ~sniAccepted

====
